---- MODULE Spec2Model ----
(***************************************************************************)
(* A model of the prestgo Presto driver: the connection, the statement     *)
(* submission (stmt.Query) and the paginating result cursor (rows.fetch,   *)
(* rows.Columns, rows.Next) with the value converters bound per column.    *)
(* The HTTP server is the environment: every request gets a response drawn *)
(* from a bounded set.                                                     *)
(***************************************************************************)
EXTENDS Integers, Sequences, FiniteSets, TLC

VARIABLES
    conn,      \* the *conn built by ClientOpen (NoConn before it)
    dsn,       \* the data source name ClientOpen was called with
    st,        \* the *stmt built by conn.Prepare (NoStmt before it)
    rws,       \* cursor id -> the *rows record (NoRows: no cursor returned)
    dest,      \* cursor id -> the caller's dest []driver.Value buffer
    hist,      \* cursor id -> what the caller and the server have seen so far
    subs,      \* the submissions made so far: request, response, outcome
    ret,       \* the last call: operation, cursor, returned error and value
    panicked   \* a Go run-time panic has unwound the calling goroutine

vars == <<conn, dsn, st, rws, dest, hist, subs, ret, panicked>>

-----------------------------------------------------------------------------
(* Bounds of the model.                                                    *)

\* GET requests one cursor may issue
MaxGets == 3
\* Next calls one cursor may receive
MaxNexts == 5
\* submissions (stmt.Query calls) of one behaviour
MaxSubs == 2

-----------------------------------------------------------------------------
(* Errors. An error value is a record; ErrNil is Go's nil error.           *)

Err(k, m) == [kind |-> k, msg |-> m]
ErrNil == Err("nil", "")
EOF == Err("io.EOF", "")
ErrNotSupported == Err("ErrNotSupported", "prestgo: not supported")
ErrQueryFailed == Err("ErrQueryFailed", "prestgo: query failed")
ErrTransport == Err("transport", "")
ErrDecode == Err("json", "")
ErrPanic == Err("panic", "")
ErrUnsupportedType(t) == Err("unsupported column type", t)
ErrConvert(t) == Err("convert", t)
\* the stmtError value decoded from the response's "error" member
ErrServer(detail) == Err("stmtError", detail)

-----------------------------------------------------------------------------
(* Raw JSON values as encoding/json decodes them into interface{}, and the *)
(* driver.Value results. A number is a float64, held here in tenths.       *)

Val(k, s, n) == [kind |-> k, s |-> s, n |-> n]
JString(s) == Val("string", s, 0)
JNumber(tenths) == Val("float64", "", tenths)
JBool(b) == Val("bool", "", IF b THEN 1 ELSE 0)
JNull == Val("nil", "", 0)
\* a dest slot the driver has not written
Unset == Val("unset", "", 0)

Digit(d) == CASE d = 0 -> "0" [] d = 1 -> "1" [] d = 2 -> "2" [] d = 3 -> "3"
              [] d = 4 -> "4" [] d = 5 -> "5" [] d = 6 -> "6" [] d = 7 -> "7"
              [] d = 8 -> "8" [] OTHER -> "9"

RECURSIVE NatToStr(_)
NatToStr(n) == IF n < 10 THEN Digit(n) ELSE NatToStr(n \div 10) \o Digit(n % 10)

Abs(n) == IF n < 0 THEN 0 - n ELSE n

\* fmt.Sprintf("%v", float64): shortest decimal form
FormatFloat(tenths) ==
    (IF tenths < 0 THEN "-" ELSE "")
        \o NatToStr(Abs(tenths) \div 10)
        \o (IF Abs(tenths) % 10 = 0 THEN "" ELSE "." \o Digit(Abs(tenths) % 10))

\* fmt.Sprintf("%v", v) for the raw values that are not strings
SprintV(v) ==
    CASE v.kind = "float64" -> FormatFloat(v.n)
      [] v.kind = "bool" -> (IF v.n = 1 THEN "true" ELSE "false")
      [] v.kind = "nil" -> "<nil>"
      [] OTHER -> v.s

\* int64(vv): truncation towards zero
TruncInt64(tenths) == IF tenths < 0 THEN 0 - (Abs(tenths) \div 10) ELSE tenths \div 10

\* strings strconv.ParseBool accepts
ParseBoolTrue == {"1", "t", "T", "TRUE", "true", "True"}
ParseBoolFalse == {"0", "f", "F", "FALSE", "false", "False"}

\* strings time.ParseInLocation accepts for the layout "2006-01-02 15:04:05.000"
TimestampLayoutStrings == {"2015-02-09 18:26:02.013", "2015-04-23 10:00:08.123"}

\* the declared column types rows.fetch knows
VarChar == "varchar"
BigInt == "bigint"
Boolean == "boolean"
Double == "double"
Timestamp == "timestamp"

\* the driver.ValueConverter values rows.fetch binds; NilConverter is the
\* zero value of a slot of r.types the binding loop never reached
StringConverter == "driver.String"
BigIntConverter == "bigIntConverter"
BoolConverter == "driver.Bool"
DoubleConverter == "doubleConverter"
TimestampConverter == "timestampConverter"
NilConverter == "nil"

Converted(v) == [val |-> v, err |-> ErrNil]
ConvertFailed(t) == [val |-> JNull, err |-> ErrConvert(t)]

\* driver.String.ConvertValue
stringConvertValue(v) ==
    IF v.kind = "string" THEN Converted(v) ELSE Converted(JString(SprintV(v)))

\* bigIntConverter
bigIntConvertValue(v) ==
    IF v.kind = "float64"
    THEN Converted(Val("int64", "", TruncInt64(v.n)))
    ELSE ConvertFailed("int64")

\* doubleConverter
doubleConvertValue(v) ==
    IF v.kind = "float64" THEN Converted(v) ELSE ConvertFailed("float64")

\* driver.Bool.ConvertValue
boolConvertValue(v) ==
    CASE v.kind = "bool" -> Converted(v)
      [] v.kind = "string" /\ v.s \in ParseBoolTrue -> Converted(JBool(TRUE))
      [] v.kind = "string" /\ v.s \in ParseBoolFalse -> Converted(JBool(FALSE))
      [] OTHER -> ConvertFailed("bool")

\* timestampConverter
timestampConvertValue(v) ==
    IF v.kind = "string"
    THEN IF v.s \in TimestampLayoutStrings
         THEN Converted(Val("time.Time", v.s \o " Local", 0))
         ELSE [val |-> Val("time.Time", "", 0), err |-> ErrConvert("time.Parse")]
    ELSE ConvertFailed("time.Time")

\* v.ConvertValue(raw) for a bound converter
ConvertValue(conv, v) ==
    CASE conv = StringConverter -> stringConvertValue(v)
      [] conv = BigIntConverter -> bigIntConvertValue(v)
      [] conv = BoolConverter -> boolConvertValue(v)
      [] conv = DoubleConverter -> doubleConvertValue(v)
      [] OTHER -> timestampConvertValue(v)

\* the switch on col.Type in rows.fetch
SupportedTypes == {VarChar, BigInt, Boolean, Double, Timestamp}
ConverterFor(t) ==
    CASE t = VarChar -> StringConverter
      [] t = BigInt -> BigIntConverter
      [] t = Boolean -> BoolConverter
      [] t = Double -> DoubleConverter
      [] OTHER -> TimestampConverter

-----------------------------------------------------------------------------
(* HTTP responses. neterr: client.Do returned an error; status: the HTTP   *)
(* status; decodes: the body is JSON of the expected shape; the remaining  *)
(* fields are the members of the decoded envelope.                         *)

Response(ne, status, dec, state, cols, data, next, detail) ==
    [neterr |-> ne, status |-> status, decodes |-> dec, state |-> state,
     columns |-> cols, data |-> data, nextUri |-> next, error |-> detail]

Col(name, type) == [name |-> name, type |-> type]

\* the continuation URIs of the mock service
FirstURI == "http://presto/v1/query/abcd/1"
SecondURI == "http://presto/v1/query/abcd/2"

Row0 == <<JString("c0r0")>>
Row1 == <<JNumber(125)>>

\* the pages' data arrays
DataSets == {<<>>, <<Row1>>, <<Row0, Row1>>}
\* the pages' columns members
ColumnSets == {<<Col("col0", VarChar)>>, <<Col("col0", BigInt)>>, <<Col("col0", "json")>>}
NextUris == {"", SecondURI}

Page(cols, data, next) == Response(FALSE, 200, TRUE, "RUNNING", cols, data, next, "")
OkPages == {Page(cols, data, next) : cols \in ColumnSets, data \in DataSets, next \in NextUris}

\* no request on the wire, no answer
NoResponse == Response(TRUE, 0, FALSE, "none", <<>>, <<>>, "", "")
NetErrResponse == Response(TRUE, 0, FALSE, "", <<>>, <<>>, "", "")
\* a non-200 answer whose body would be a page if it were read
Http500Response ==
    Response(FALSE, 500, TRUE, "RUNNING", <<Col("col0", VarChar)>>, <<Row0>>, SecondURI, "")
UndecodableResponse == Response(FALSE, 200, FALSE, "", <<>>, <<>>, "", "")
FailedResponse ==
    Response(FALSE, 200, TRUE, "FAILED", <<Col("col0", VarChar)>>, <<Row0>>, SecondURI, "E1")
FailResponses == {NetErrResponse, Http500Response, UndecodableResponse, FailedResponse}

GetResponses == OkPages \cup FailResponses

\* a page the cursor accepts: fetch gets past its status, decode and state checks
Accepted(resp) ==
    ~resp.neterr /\ resp.status = 200 /\ resp.decodes /\ resp.state # "FAILED"
\* a transport-level or query-level failure answer
QueryFailure(resp) ==
    ~resp.neterr /\ (resp.status # 200 \/ (resp.decodes /\ resp.state = "FAILED"))

-----------------------------------------------------------------------------
(* The rows cursor.                                                        *)

NoRows == [nil |-> TRUE]

\* &rows{conn: s.conn, nextURI: sresp.NextURI}
NewRows(uri) ==
    [nextURI |-> uri, fetched |-> FALSE, rowindex |-> 0,
     columns |-> <<>>, types |-> <<>>, data |-> <<>>]

\* index of the first column whose declared type has no converter, 0 if none
RECURSIVE FirstUnsupported(_, _)
FirstUnsupported(cols, i) ==
    IF i > Len(cols) THEN 0
    ELSE IF cols[i].type \notin SupportedTypes THEN i
    ELSE FirstUnsupported(cols, i + 1)

\* r.columns after the binding loop: the loop stores a name before it
\* switches on the type, and returns at the first unsupported type
BoundColumns(cols) ==
    LET bad == FirstUnsupported(cols, 1)
    IN  [i \in 1..Len(cols) |-> IF bad = 0 \/ i <= bad THEN cols[i].name ELSE ""]

\* r.types after the binding loop
BoundTypes(cols) ==
    LET bad == FirstUnsupported(cols, 1)
    IN  [i \in 1..Len(cols) |->
            IF bad = 0 \/ i < bad THEN ConverterFor(cols[i].type) ELSE NilConverter]

\* the error the binding loop returns
BindError(cols) ==
    LET bad == FirstUnsupported(cols, 1)
    IN  IF bad = 0 THEN ErrNil ELSE ErrUnsupportedType(cols[bad].type)

\* client.Do puts a request on the wire only for a URL with a scheme
RequestSent(url) == url # ""

FetchResult(r, e, sent) == [r |-> r, err |-> e, sent |-> sent]

\* the last statement of rows.fetch
fetchEmptyPage(qresp) == IF Len(qresp.data) = 0 THEN EOF ELSE ErrNil

fetchAcceptKeepIndex(r, qresp) ==
    [r EXCEPT !.data = qresp.data, !.nextURI = qresp.nextUri]

\* rows.fetch, the page is accepted: rowindex, data and nextURI
fetchAccept(r, qresp) ==
    [r EXCEPT !.rowindex = 0, !.data = qresp.data, !.nextURI = qresp.nextUri]

fetchBindEveryPage(r, qresp) ==
    [r EXCEPT !.fetched = TRUE,
              !.columns = BoundColumns(qresp.columns),
              !.types = BoundTypes(qresp.columns)]

fetchBindUntilColumns(r, qresp) ==
    IF ~r.fetched \/ r.columns = <<>>
    THEN [r EXCEPT !.fetched = TRUE,
                   !.columns = BoundColumns(qresp.columns),
                   !.types = BoundTypes(qresp.columns)]
    ELSE r

\* rows.fetch, the schema step of the first accepted page
fetchBind(r, qresp) ==
    IF ~r.fetched
    THEN [r EXCEPT !.fetched = TRUE,
                   !.columns = BoundColumns(qresp.columns),
                   !.types = BoundTypes(qresp.columns)]
    ELSE r

fetchRejectIgnoresState(resp) ==
    IF resp.neterr THEN ErrTransport
    ELSE IF resp.status # 200 THEN ErrQueryFailed
    ELSE IF ~resp.decodes THEN ErrDecode
    ELSE ErrNil

\* rows.fetch, the checks before the page is accepted: the error of
\* client.Do, the status, the decoding of the body, stats.state
fetchReject(resp) ==
    IF resp.neterr THEN ErrTransport
    ELSE IF resp.status # 200 THEN ErrQueryFailed
    ELSE IF ~resp.decodes THEN ErrDecode
    ELSE IF resp.state = "FAILED" THEN ErrServer(resp.error)
    ELSE ErrNil

fetchDropsPageOnReject(r, resp) ==
    IF ~RequestSent(r.nextURI) THEN FetchResult(r, ErrTransport, FALSE)
    ELSE IF fetchReject(resp) # ErrNil
         THEN FetchResult([r EXCEPT !.rowindex = 0, !.data = <<>>], fetchReject(resp), TRUE)
    ELSE LET r1 == fetchAccept(r, resp)
             r2 == fetchBind(r1, resp)
         IN  IF ~r.fetched /\ BindError(resp.columns) # ErrNil
             THEN FetchResult(r2, BindError(resp.columns), TRUE)
             ELSE FetchResult(r2, fetchEmptyPage(resp), TRUE)

\* rows.fetch with the server answering resp
fetch(r, resp) ==
    IF ~RequestSent(r.nextURI) THEN FetchResult(r, ErrTransport, FALSE)
    ELSE IF fetchReject(resp) # ErrNil THEN FetchResult(r, fetchReject(resp), TRUE)
    ELSE LET r1 == fetchAccept(r, resp)
             r2 == fetchBind(r1, resp)
         IN  IF ~r.fetched /\ BindError(resp.columns) # ErrNil
             THEN FetchResult(r2, BindError(resp.columns), TRUE)
             ELSE FetchResult(r2, fetchEmptyPage(resp), TRUE)

-----------------------------------------------------------------------------
(* rows.Next.                                                              *)

\* len(dest) of the buffer the caller passes to Next
DestLen == 1

NeedFetchOffByOne(r) == ~r.fetched \/ r.rowindex > Len(r.data)

NeedFetchAhead(r) == ~r.fetched \/ r.rowindex + 1 >= Len(r.data)

\* the condition opening rows.Next
NeedFetch(r) == ~r.fetched \/ r.rowindex >= Len(r.data)

ConvertResult(d, e) == [dest |-> d, err |-> e]

\* the conversion loop of rows.Next over r.types, from column i on
RECURSIVE ConvertRow(_, _, _)
ConvertRow(r, d, i) ==
    IF i > Len(r.types) THEN ConvertResult(d, ErrNil)
    ELSE IF r.rowindex >= Len(r.data) THEN ConvertResult(d, ErrPanic)
    ELSE IF i > Len(r.data[r.rowindex + 1]) THEN ConvertResult(d, ErrPanic)
    ELSE IF r.types[i] = NilConverter THEN ConvertResult(d, ErrPanic)
    ELSE LET cv == ConvertValue(r.types[i], r.data[r.rowindex + 1][i])
         IN  IF cv.err # ErrNil THEN ConvertResult(d, cv.err)
             ELSE IF i > Len(d) THEN ConvertResult(d, ErrPanic)
             ELSE ConvertRow(r, [d EXCEPT ![i] = cv.val], i + 1)

NextResult(r, d, e, sent) == [r |-> r, dest |-> d, err |-> e, sent |-> sent]

nextAdvanceTwice(r) == [r EXCEPT !.rowindex = r.rowindex + 2]

\* r.rowindex++
nextAdvance(r) == [r EXCEPT !.rowindex = r.rowindex + 1]

nextDeliverSkipsBadRow(r, d, sent) ==
    LET cr == ConvertRow(r, d, 1)
    IN  NextResult(nextAdvance(r), cr.dest, cr.err, sent)

\* rows.Next once the page holding the row is buffered
nextDeliver(r, d, sent) ==
    LET cr == ConvertRow(r, d, 1)
    IN  IF cr.err # ErrNil
        THEN NextResult(r, cr.dest, cr.err, sent)
        ELSE NextResult(nextAdvance(r), cr.dest, ErrNil, sent)

nextExhaustedNever(r) == FALSE

\* the test of rows.Next for a cursor with no page left to ask for
nextExhausted(r) == r.nextURI = ""

\* rows.Next with the server answering resp to the GET it may issue
next(r, d, resp) ==
    IF NeedFetch(r)
    THEN IF nextExhausted(r)
         THEN NextResult(r, d, EOF, FALSE)
         ELSE LET f == fetch(r, resp)
              IN  IF f.err # ErrNil
                  THEN NextResult(f.r, d, f.err, f.sent)
                  ELSE nextDeliver(f.r, d, f.sent)
    ELSE nextDeliver(r, d, FALSE)

\* rows.Columns with the server answering resp to the GET it may issue
columns(r, resp) ==
    IF ~r.fetched
    THEN LET f == fetch(r, resp) IN [r |-> f.r, err |-> f.err, sent |-> f.sent, called |-> TRUE]
    ELSE [r |-> r, err |-> ErrNil, sent |-> FALSE, called |-> FALSE]

-----------------------------------------------------------------------------
(* What the caller and the server have seen of one cursor.                 *)

\* Columns calls counted per cursor
MaxColumnsCalls == 2

NewHist(seed) ==
    [seed |-> seed,       \* the continuation URI the cursor was created with
     pages |-> <<>>,      \* the accepted pages: requested URL, data, nextUri
     schema |-> <<>>,     \* the columns member of the first accepted page
     results |-> <<>>,    \* the Next calls: returned error, row written, GET sent
     gets |-> 0,          \* GET requests put on the wire
     fetches |-> 0,       \* calls of rows.fetch
     ncols |-> 0,         \* Columns calls
     qfailed |-> FALSE,   \* a fetch met a non-200 status or state FAILED
     srvfail |-> FALSE]   \* a GET was not answered with a page fetch accepts

Failure(e) == e # ErrNil /\ e # EOF

\* the history after a call that ran fetch (or not) against resp
Recorded(h, r, called, sent, resp) ==
    [h EXCEPT
        !.pages = IF sent /\ Accepted(resp)
                  THEN Append(@, [url |-> r.nextURI, data |-> resp.data,
                                  nextUri |-> resp.nextUri])
                  ELSE @,
        !.schema = IF sent /\ Accepted(resp) /\ h.pages = <<>> THEN resp.columns ELSE @,
        !.gets = IF sent THEN @ + 1 ELSE @,
        !.fetches = IF called THEN @ + 1 ELSE @,
        !.qfailed = @ \/ (sent /\ QueryFailure(resp)),
        !.srvfail = @ \/ (sent /\ ~Accepted(resp))]

\* the last call: sent and url tell the request it put on the wire, resp the answer
Call(op, c, e, v, sent, url, resp) ==
    [op |-> op, c |-> c, err |-> e, val |-> v, sent |-> sent, url |-> url,
     resp |-> IF sent THEN resp ELSE NoResponse]
NoCall == Call("none", 0, ErrNil, <<>>, FALSE, "", NoResponse)

Cursors == DOMAIN rws

\* the answers the server may give to the GET of a call that issues one
Answers(sending, answers) == IF sending THEN answers ELSE {NoResponse}

rowsNextSharedCursor(c, answers) ==
    /\ ~panicked
    /\ rws[c] # NoRows
    /\ Len(hist[c].results) < MaxNexts
    /\ LET r == rws[c]
           fetching == NeedFetch(r) /\ r.nextURI # ""
       IN  /\ (fetching /\ RequestSent(r.nextURI)) => hist[c].gets < MaxGets
           /\ \E resp \in Answers(fetching /\ RequestSent(r.nextURI), answers) :
                LET n == next(r, dest[c], resp)
                    row == IF n.err = ErrNil THEN n.dest ELSE <<>>
                    h1 == Recorded(hist[c], r, fetching, n.sent, resp)
                IN  /\ rws' = [x \in Cursors |-> IF rws[x] = NoRows THEN rws[x] ELSE n.r]
                    /\ dest' = [dest EXCEPT ![c] = n.dest]
                    /\ hist' = [hist EXCEPT ![c] =
                                 [h1 EXCEPT !.results = Append(@, [err |-> n.err, row |-> row,
                                                                   sent |-> n.sent])]]
                    /\ ret' = Call("Next", c, n.err, row, n.sent,
                                   IF n.sent THEN r.nextURI ELSE "", resp)
                    /\ panicked' = (n.err = ErrPanic)
    /\ UNCHANGED <<conn, dsn, st, subs>>

\* r.Next(dest) on cursor c, the server answering from answers
rowsNext(c, answers) ==
    /\ ~panicked
    /\ rws[c] # NoRows
    /\ Len(hist[c].results) < MaxNexts
    /\ LET r == rws[c]
           fetching == NeedFetch(r) /\ r.nextURI # ""
       IN  /\ (fetching /\ RequestSent(r.nextURI)) => hist[c].gets < MaxGets
           /\ \E resp \in Answers(fetching /\ RequestSent(r.nextURI), answers) :
                LET n == next(r, dest[c], resp)
                    row == IF n.err = ErrNil THEN n.dest ELSE <<>>
                    h1 == Recorded(hist[c], r, fetching, n.sent, resp)
                IN  /\ rws' = [rws EXCEPT ![c] = n.r]
                    /\ dest' = [dest EXCEPT ![c] = n.dest]
                    /\ hist' = [hist EXCEPT ![c] =
                                 [h1 EXCEPT !.results = Append(@, [err |-> n.err, row |-> row,
                                                                   sent |-> n.sent])]]
                    /\ ret' = Call("Next", c, n.err, row, n.sent,
                                   IF n.sent THEN r.nextURI ELSE "", resp)
                    /\ panicked' = (n.err = ErrPanic)
    /\ UNCHANGED <<conn, dsn, st, subs>>

\* r.Columns() on cursor c, the server answering from answers
rowsColumns(c, answers) ==
    /\ ~panicked
    /\ rws[c] # NoRows
    /\ hist[c].ncols < MaxColumnsCalls
    /\ LET r == rws[c]
           sending == ~r.fetched /\ RequestSent(r.nextURI)
       IN  /\ sending => hist[c].gets < MaxGets
           /\ \E resp \in Answers(sending, answers) :
                LET k == columns(r, resp)
                IN  /\ rws' = [rws EXCEPT ![c] = k.r]
                    /\ hist' = [hist EXCEPT ![c] =
                                 [Recorded(hist[c], r, k.called, k.sent, resp)
                                     EXCEPT !.ncols = @ + 1]]
                    /\ ret' = Call("Columns", c, ErrNil, k.r.columns, k.sent,
                                   IF k.sent THEN r.nextURI ELSE "", resp)
    /\ UNCHANGED <<conn, dsn, st, dest, subs, panicked>>

-----------------------------------------------------------------------------
(* The cursor on its own, as the tests build it:                           *)
(* &rows{conn: &conn{client: http.DefaultClient}, nextURI: ...}.           *)

NoConn == [nil |-> TRUE]
NoStmt == [nil |-> TRUE]
TestConn == [addr |-> "", catalog |-> "", schema |-> ""]
Seeds == {"", FirstURI}

Init ==
    /\ conn = TestConn
    /\ dsn = <<>>
    /\ st = NoStmt
    /\ \E seed \in Seeds :
        /\ rws = [c \in {1} |-> NewRows(seed)]
        /\ hist = [c \in {1} |-> NewHist(seed)]
    /\ dest = [c \in {1} |-> [i \in 1..DestLen |-> Unset]]
    /\ subs = <<>>
    /\ ret = NoCall
    /\ panicked = FALSE

Next ==
    \/ \E c \in Cursors : rowsNext(c, GetResponses)
    \/ \E c \in Cursors : rowsColumns(c, GetResponses)

Spec == Init /\ [][Next]_vars

-----------------------------------------------------------------------------
(* Data source names. A name is a sequence of one-character strings, so    *)
(* that the parsing can look at its characters; the configuration values   *)
(* made of it are strings.                                                 *)

RECURSIVE Join(_)
\* the string of a sequence of characters
Join(cs) == IF cs = <<>> THEN "" ELSE Head(cs) \o Join(Tail(cs))

RECURSIVE IndexFrom(_, _, _)
IndexFrom(cs, ch, i) ==
    IF i > Len(cs) THEN 0 ELSE IF cs[i] = ch THEN i ELSE IndexFrom(cs, ch, i + 1)

\* strings.IndexRune, counted from 1; 0 when the character is absent
IndexRune(cs, ch) == IndexFrom(cs, ch, 1)

RECURSIVE LastIndexFrom(_, _, _)
LastIndexFrom(cs, ch, i) ==
    IF i < 1 THEN 0 ELSE IF cs[i] = ch THEN i ELSE LastIndexFrom(cs, ch, i - 1)

\* strings.LastIndex, counted from 1; 0 when the character is absent
LastIndex(cs, ch) == LastIndexFrom(cs, ch, Len(cs))

From(cs, i) == SubSeq(cs, i, Len(cs))
UpTo(cs, i) == SubSeq(cs, 1, i)
HasPrefix(cs, pre) == Len(cs) >= Len(pre) /\ UpTo(cs, Len(pre)) = pre

Letters == {"a", "b", "c", "d", "e", "h", "i", "l", "m", "n", "o", "p", "r", "s", "t",
            "u", "v", "w", "x"}
SchemeMarks == {"0", "1", "2", "3", "4", "5", "6", "7", "8", "9", "+", "-", "."}

\* net/url getScheme, scanning from character i: the split at the first ':'
\* that follows letters only
RECURSIVE getScheme(_, _)
getScheme(raw, i) ==
    IF i > Len(raw) THEN [err |-> FALSE, scheme |-> <<>>, rest |-> raw]
    ELSE IF raw[i] \in Letters THEN getScheme(raw, i + 1)
    ELSE IF raw[i] \in SchemeMarks
         THEN IF i = 1 THEN [err |-> FALSE, scheme |-> <<>>, rest |-> raw]
              ELSE getScheme(raw, i + 1)
    ELSE IF raw[i] = ":"
         THEN IF i = 1 THEN [err |-> TRUE, scheme |-> <<>>, rest |-> raw]
              ELSE [err |-> FALSE, scheme |-> UpTo(raw, i - 1), rest |-> From(raw, i + 1)]
    ELSE [err |-> FALSE, scheme |-> <<>>, rest |-> raw]

URL(e, user, host, path) == [err |-> e, User |-> user, Host |-> host, Path |-> path]

\* net/url parseAuthority: the user name and the host of [userinfo@]host
parseAuthority(authority) ==
    LET at == LastIndex(authority, "@")
        userinfo == UpTo(authority, at - 1)
        colon == IndexRune(userinfo, ":")
    IN  IF at = 0 THEN [User |-> <<>>, Host |-> authority]
        ELSE [User |-> IF colon = 0 THEN userinfo ELSE UpTo(userinfo, colon - 1),
              Host |-> From(authority, at + 1)]

\* net/url.Parse for names without '?' and '#'
urlParse(raw) ==
    LET g == getScheme(raw, 1)
        rest == g.rest
    IN  IF g.err THEN URL(TRUE, <<>>, <<>>, <<>>)
        ELSE IF ~HasPrefix(rest, <<"/">>) /\ g.scheme # <<>>
             THEN URL(FALSE, <<>>, <<>>, <<>>)
        ELSE IF ~HasPrefix(rest, <<"/">>) /\ g.scheme = <<>>
                 /\ IndexRune(rest, ":") > 0
                 /\ (IndexRune(rest, "/") = 0 \/ IndexRune(rest, ":") < IndexRune(rest, "/"))
             THEN URL(TRUE, <<>>, <<>>, <<>>)
        ELSE IF HasPrefix(rest, <<"/", "/">>)
                 /\ (g.scheme # <<>> \/ ~HasPrefix(rest, <<"/", "/", "/">>))
             THEN LET after == From(rest, 3)
                      slash == IndexRune(after, "/")
                      authority == IF slash = 0 THEN after ELSE UpTo(after, slash - 1)
                      a == parseAuthority(authority)
                  IN  URL(FALSE, a.User, a.Host, IF slash = 0 THEN <<>> ELSE From(after, slash))
        ELSE URL(FALSE, <<>>, <<>>, rest)

RECURSIVE FieldsSlash(_, _)
\* strings.FieldsFunc(path, c == '/'): the non-empty runs between slashes;
\* cur is the run being read
FieldsSlash(cs, cur) ==
    IF cs = <<>> THEN (IF cur = <<>> THEN <<>> ELSE <<cur>>)
    ELSE IF Head(cs) = "/"
         THEN (IF cur = <<>> THEN <<>> ELSE <<cur>>) \o FieldsSlash(Tail(cs), <<>>)
         ELSE FieldsSlash(Tail(cs), Append(cur, Head(cs)))

DefaultPort == "8080"
DefaultCatalog == "hive"
DefaultSchema == "default"

parseDataSourceFirstSegmentTwice(ds) ==
    LET u == urlParse(ds)
        pathSegments == FieldsSlash(u.Path, <<>>)
    IN  IF u.err THEN [err |-> TRUE, addr |-> "", catalog |-> "", schema |-> ""]
        ELSE [err |-> FALSE,
              addr |-> IF IndexRune(u.Host, ":") = 0
                       THEN Join(u.Host) \o ":" \o DefaultPort
                       ELSE Join(u.Host),
              catalog |-> IF Len(pathSegments) > 0 THEN Join(pathSegments[1])
                          ELSE DefaultCatalog,
              schema |-> IF Len(pathSegments) > 1 THEN Join(pathSegments[1])
                         ELSE DefaultSchema]

\* the config map after conf.parseDataSource(ds); empty when url.Parse fails
parseDataSource(ds) ==
    LET u == urlParse(ds)
        pathSegments == FieldsSlash(u.Path, <<>>)
    IN  IF u.err THEN [err |-> TRUE, addr |-> "", catalog |-> "", schema |-> ""]
        ELSE [err |-> FALSE,
              addr |-> IF IndexRune(u.Host, ":") = 0
                       THEN Join(u.Host) \o ":" \o DefaultPort
                       ELSE Join(u.Host),
              catalog |-> IF Len(pathSegments) > 0 THEN Join(pathSegments[1])
                          ELSE DefaultCatalog,
              schema |-> IF Len(pathSegments) > 1 THEN Join(pathSegments[2])
                         ELSE DefaultSchema]

\* "presto://"
PrestoScheme == <<"p", "r", "e", "s", "t", "o", ":", "/", "/">>

\* the data source names connections are opened with
DataSources ==
    {<<>>,
     PrestoScheme \o <<"e", "x", ":", "9", "/">>,
     PrestoScheme \o <<"e", "x", "/">>,
     PrestoScheme \o <<"e", "x", "/", "t">>,
     PrestoScheme \o <<"e", "x", "/", "t", "/", "b">>,
     PrestoScheme \o <<"n", "@", "e", "x", "/">>,
     PrestoScheme \o <<"n", ":", "p", "w", "@", "e", "x", ":", "9", "/">>,
     PrestoScheme \o <<"n", "@", "e", "x", "/", "t", "/", "b">>,
     PrestoScheme \o <<"/", "t">>}

-----------------------------------------------------------------------------
(* The connection and the statement.                                       *)

\* ClientOpen(client, name): the conn of the parsed data source; the error
\* of parseDataSource is dropped
clientOpen(ds) ==
    LET conf == parseDataSource(ds)
    IN  [addr |-> conf.addr, catalog |-> conf.catalog, schema |-> conf.schema]

ClientOpen(ds) ==
    /\ ~panicked
    /\ conn = NoConn
    /\ conn' = clientOpen(ds)
    /\ dsn' = ds
    /\ ret' = Call("ClientOpen", 0, ErrNil, <<>>, FALSE, "", NoResponse)
    /\ UNCHANGED <<st, rws, dest, hist, subs, panicked>>

\* the query texts statements are prepared with
Queries == {"SELECT 1", "SHOW TABLES"}

\* c.Prepare(query)
connPrepare(query) ==
    /\ ~panicked
    /\ conn # NoConn
    /\ st = NoStmt
    /\ st' = [query |-> query]
    /\ ret' = Call("Prepare", 0, ErrNil, <<>>, FALSE, "", NoResponse)
    /\ UNCHANGED <<conn, dsn, rws, dest, hist, subs, panicked>>

NoRequest == [method |-> "", url |-> "", body |-> "", user |-> "", catalog |-> "", schema |-> ""]

\* the request stmt.Query builds: method, URL, body and the X-Presto-User,
\* X-Presto-Catalog and X-Presto-Schema headers
queryRequest(cn, s) ==
    [method |-> "POST",
     url |-> "http://" \o cn.addr \o "/v1/statement",
     body |-> s.query,
     user |-> "default",
     catalog |-> cn.catalog,
     schema |-> cn.schema]

queryRejectStateFirst(resp) ==
    IF resp.neterr THEN ErrTransport
    ELSE IF resp.decodes /\ resp.state = "FAILED" THEN ErrServer(resp.error)
    ELSE IF resp.status # 200 THEN ErrQueryFailed
    ELSE IF ~resp.decodes THEN ErrDecode
    ELSE ErrNil

\* stmt.Query, the checks on the answer to the POST: the error of client.Do,
\* the status, the decoding of the body, stats.state
queryReject(resp) ==
    IF resp.neterr THEN ErrTransport
    ELSE IF resp.status # 200 THEN ErrQueryFailed
    ELSE IF ~resp.decodes THEN ErrDecode
    ELSE IF resp.state = "FAILED" THEN ErrServer(resp.error)
    ELSE ErrNil

queryRowsFetched(resp) == [NewRows(resp.nextUri) EXCEPT !.fetched = TRUE]

\* stmt.Query, the rows it returns for an accepted answer
queryRows(resp) == NewRows(resp.nextUri)

QueryResult(req, sent, e, r) == [req |-> req, sent |-> sent, err |-> e, rows |-> r]

queryIgnoresArgs(cn, s, args, resp) ==
    IF queryReject(resp) # ErrNil
    THEN QueryResult(queryRequest(cn, s), TRUE, queryReject(resp), NoRows)
    ELSE QueryResult(queryRequest(cn, s), TRUE, ErrNil, queryRows(resp))

\* stmt.Query(args) with the server answering resp to the POST
query(cn, s, args, resp) ==
    IF Len(args) > 0 THEN QueryResult(NoRequest, FALSE, ErrNotSupported, NoRows)
    ELSE IF queryReject(resp) # ErrNil
         THEN QueryResult(queryRequest(cn, s), TRUE, queryReject(resp), NoRows)
    ELSE QueryResult(queryRequest(cn, s), TRUE, ErrNil, queryRows(resp))

\* the cursor ids not handed out yet
FreeCursors == {c \in Cursors : rws[c] = NoRows}

\* s.Query(args), the server answering from answers
stmtQuery(args, answers) ==
    /\ ~panicked
    /\ st # NoStmt
    /\ Len(subs) < MaxSubs
    /\ FreeCursors # {}
    /\ \E resp \in Answers(Len(args) = 0, answers) :
        LET q == query(conn, st, args, resp)
            c == IF q.rows = NoRows THEN 0 ELSE CHOOSE x \in FreeCursors : TRUE
        IN  /\ subs' = Append(subs, [args |-> args, req |-> q.req, sent |-> q.sent,
                                     resp |-> IF q.sent THEN resp ELSE NoResponse,
                                     err |-> q.err, cursor |-> c])
            /\ rws' = [x \in Cursors |-> IF x = c THEN q.rows ELSE rws[x]]
            /\ hist' = [x \in Cursors |-> IF x = c THEN NewHist(q.rows.nextURI) ELSE hist[x]]
            /\ ret' = Call("Query", c, q.err, <<>>, q.sent, q.req.url, resp)
    /\ UNCHANGED <<conn, dsn, st, dest, panicked>>

\* the argument lists Query is called with
ArgLists == {<<>>, <<JNumber(10)>>}

\* the answers to the POST
SubmitOk(uri) == Response(FALSE, 200, TRUE, "QUEUED", <<>>, <<>>, uri, "")
SubmitResponses ==
    {NetErrResponse, Http500Response, UndecodableResponse, FailedResponse,
     Response(FALSE, 500, TRUE, "FAILED", <<>>, <<>>, FirstURI, "E1"),
     Response(FALSE, 500, FALSE, "", <<>>, <<>>, "", ""),
     SubmitOk(FirstURI), SubmitOk("")}

\* the answers to the page GETs of a submitted query
SubmitPages == {Http500Response, Page(<<Col("col0", VarChar)>>, <<Row0>>, "")}

InitSubmit ==
    /\ conn = NoConn
    /\ dsn = <<>>
    /\ st = NoStmt
    /\ rws = [c \in {1} |-> NoRows]
    /\ dest = [c \in {1} |-> [i \in 1..DestLen |-> Unset]]
    /\ hist = [c \in {1} |-> NewHist("")]
    /\ subs = <<>>
    /\ ret = NoCall
    /\ panicked = FALSE

NextSubmit ==
    \/ \E ds \in DataSources : ClientOpen(ds)
    \/ \E q \in Queries : connPrepare(q)
    \/ \E args \in ArgLists : stmtQuery(args, SubmitResponses)
    \/ \E c \in Cursors : rowsNext(c, SubmitPages)
    \/ \E c \in Cursors : rowsColumns(c, SubmitPages)

SpecSubmit == InitSubmit /\ [][NextSubmit]_vars

-----------------------------------------------------------------------------
(* Properties of the cursor, checked under Spec.                           *)

RECURSIVE Flatten(_)
\* the rows of the accepted pages, in the order the pages were fetched
Flatten(pages) ==
    IF pages = <<>> THEN <<>> ELSE Head(pages).data \o Flatten(Tail(pages))

RECURSIVE DeliveredRows(_)
\* the rows the successful Next calls wrote, in call order
DeliveredRows(results) ==
    IF results = <<>> THEN <<>>
    ELSE (IF Head(results).err = ErrNil THEN <<Head(results).row>> ELSE <<>>)
            \o DeliveredRows(Tail(results))

\* a raw row as the bound converters deliver it into a dest of DestLen slots
ConvertedRow(types, row) ==
    [i \in 1..DestLen |->
        IF i <= Len(types) /\ i <= Len(row) THEN ConvertValue(types[i], row[i]).val ELSE Unset]

\* the numbers of rows a non-empty page may carry
RowCounts == {Len(d) : d \in DataSets} \ {0}

\* every page so far carries k rows, but the last, which may be the
\* empty page without nextUri that ends the chain
KChain(h, k) ==
    \A i \in 1..Len(h.pages) :
        \/ Len(h.pages[i].data) = k
        \/ i = Len(h.pages) /\ h.pages[i].data = <<>> /\ h.pages[i].nextUri = ""

DataPages(h) == Cardinality({i \in 1..Len(h.pages) : h.pages[i].data # <<>>})

\* a cursor the caller holds
Live(c) == rws[c] # NoRows

\* the server has answered every GET of the cursor with a page, the declared
\* types of the first page all have converters, and every value of every
\* page converts to its column's declared type
FailureFree(h) ==
    /\ ~h.srvfail
    /\ \A j \in 1..Len(h.schema) : h.schema[j].type \in SupportedTypes
    /\ \A i \in 1..Len(Flatten(h.pages)) : \A j \in 1..Len(h.schema) :
            /\ j <= Len(Flatten(h.pages)[i])
            /\ ConvertValue(ConverterFor(h.schema[j].type), Flatten(h.pages)[i][j]).err = ErrNil

\* C1: over a failure-free chain of N pages of k >= 1 rows each, ended by a
\* last page without nextUri or by an empty page without nextUri, the first
\* N*k Next calls succeed and call N*k+1 returns io.EOF.
C1_NextCountsPages ==
    \A c \in Cursors : \A k \in RowCounts :
        (Live(c) /\ FailureFree(hist[c]) /\ KChain(hist[c], k)) =>
            \A i \in 1..Len(hist[c].results) :
                /\ i <= DataPages(hist[c]) * k => hist[c].results[i].err = ErrNil
                /\ i = DataPages(hist[c]) * k + 1 =>
                        /\ hist[c].results[i].err = EOF
                        /\ rws[c].nextURI = ""

\* two pages of two rows and the empty last page: four rows, then io.EOF
C1_Witness ==
    \E c \in Cursors :
        /\ Live(c) /\ FailureFree(hist[c]) /\ KChain(hist[c], 2)
        /\ Len(hist[c].pages) = 3 /\ DataPages(hist[c]) = 2
        /\ Len(hist[c].results) = 5
        /\ hist[c].results[4].err = ErrNil
        /\ hist[c].results[5].err = EOF

\* C2: with no failure the rows the successful Next calls deliver are the
\* rows of the pages in nextUri-chain order, none skipped, repeated or
\* reordered, wherever Columns calls fall: they are the converted rows of
\* the accepted pages up to the unread rest of the buffered page, and every
\* page was asked for at the nextUri of the page before it.
C2_RowsInChainOrder ==
    \A c \in Cursors :
        (Live(c) /\ FailureFree(hist[c])) =>
            LET h == hist[c]
                all == Flatten(h.pages)
                got == DeliveredRows(h.results)
            IN  /\ Len(got) = Len(all) - (Len(rws[c].data) - rws[c].rowindex)
                /\ \A i \in 1..Len(got) : got[i] = ConvertedRow(rws[c].types, all[i])
                /\ \A i \in 1..Len(h.pages) :
                        h.pages[i].url = IF i = 1 THEN h.seed ELSE h.pages[i - 1].nextUri

\* Columns fetched the first page, Next then delivered its rows and those
\* of the second page
C2_Witness ==
    \E c \in Cursors :
        /\ Live(c) /\ FailureFree(hist[c])
        /\ Len(hist[c].pages) = 2
        /\ Len(DeliveredRows(hist[c].results)) = 3
        /\ hist[c].results[1].err = ErrNil /\ ~hist[c].results[1].sent
        /\ hist[c].ncols > 0

Names(cols) == [i \in 1..Len(cols) |-> cols[i].name]

\* C3: Columns() before any Next() triggers exactly one fetch and returns
\* the column names of the first page; calling it again fetches nothing more.
C3_ColumnsFetchesOnce ==
    \A c \in Cursors :
        (Live(c) /\ hist[c].seed # "" /\ ret.op = "Columns" /\ ret.c = c
            /\ hist[c].results = <<>>) =>
                /\ hist[c].gets = 1
                /\ hist[c].pages # <<>> => ret.val = Names(hist[c].schema)

\* the step is a Next call on cursor c
NextCalled(c) == Len(hist'[c].results) = Len(hist[c].results) + 1

\* C4: a Next whose page fetch meets a non-200 status or stats.state FAILED
\* returns a failure (no row, not io.EOF), writes nothing to dest and leaves
\* the row offset where it was.
C4_FailedFetchFailsNext ==
    [][\A c \in Cursors :
        (Live(c) /\ NextCalled(c) /\ ret'.sent /\ QueryFailure(ret'.resp)) =>
            /\ Failure(ret'.err)
            /\ ret'.val = <<>>
            /\ dest'[c] = dest[c]
            /\ rws'[c].rowindex = rws[c].rowindex]_vars

\* a Next that had delivered a row before met stats.state FAILED on the next page
C4_Witness ==
    \E c \in Cursors :
        /\ Live(c) /\ ret.op = "Next" /\ ret.c = c /\ ret.sent
        /\ ret.resp.state = "FAILED" /\ QueryFailure(ret.resp)
        /\ rws[c].rowindex > 0
        /\ dest[c][1] # Unset
        /\ ret.err = ErrServer(ret.resp.error)

\* C5: FAILED is terminal: after a fetch met a non-200 status or stats.state
\* FAILED, no later Next or Columns call issues a request and every later
\* Next reports a failure.
C5_FailedIsTerminal ==
    [][\A c \in Cursors :
        (Live(c) /\ hist[c].qfailed) =>
            /\ hist'[c].gets = hist[c].gets
            /\ NextCalled(c) => Failure(ret'.err)]_vars

\* C6: an empty page that carries a nextUri never surfaces as end-of-data:
\* Next returns io.EOF only when no continuation URI remains.
C6_EmptyPageWithNextIsNotEOF ==
    \A c \in Cursors :
        (Live(c) /\ ret.op = "Next" /\ ret.c = c /\ ret.err = EOF) => rws[c].nextURI = ""

\* row offset at or past the buffered rows and no continuation URI
Exhausted(r) == r.rowindex >= Len(r.data) /\ r.nextURI = ""

\* C7: EXHAUSTED is absorbing: with the row offset at or past the buffered
\* rows and no continuation URI, Next returns io.EOF, issues no request and
\* leaves the cursor as it was.
C7_ExhaustedIsAbsorbing ==
    [][\A c \in Cursors :
        (Live(c) /\ Exhausted(rws[c]) /\ NextCalled(c)) =>
            /\ ret'.err = EOF
            /\ ~ret'.sent
            /\ hist'[c].gets = hist[c].gets
            /\ hist'[c].fetches = hist[c].fetches
            /\ rws'[c] = rws[c]]_vars

\* rows were delivered, then Next returned io.EOF twice running with no request
C7_Witness ==
    \E c \in Cursors :
        /\ Live(c) /\ Exhausted(rws[c]) /\ rws[c].fetched
        /\ Len(hist[c].results) >= 3
        /\ hist[c].results[1].err = ErrNil
        /\ hist[c].results[Len(hist[c].results)].err = EOF
        /\ ~hist[c].results[Len(hist[c].results)].sent
        /\ hist[c].results[Len(hist[c].results) - 1].err = EOF

-----------------------------------------------------------------------------
(* Properties of the submission, checked under SpecSubmit.                 *)

\* the submissions that put a POST on the wire and got an HTTP answer
Answered(s) == s.sent /\ ~s.resp.neterr

\* C8: a submission answered with a non-200 status fails with ErrQueryFailed
\* whatever the body, and one answered with status 200 and stats.state
\* FAILED fails with the server's error; neither returns a cursor, and no
\* page GET is issued for it: every cursor, and so every GET, belongs to a
\* submission that was accepted.
C8_SubmissionFailures ==
    /\ \A i \in 1..Len(subs) :
        Answered(subs[i]) =>
            /\ subs[i].resp.status # 200 =>
                    subs[i].err = ErrQueryFailed /\ subs[i].cursor = 0
            /\ (subs[i].resp.status = 200 /\ subs[i].resp.decodes
                    /\ subs[i].resp.state = "FAILED") =>
                    subs[i].err = ErrServer(subs[i].resp.error) /\ subs[i].cursor = 0
    /\ \A c \in Cursors :
        (Live(c) \/ hist[c].gets > 0 \/ hist[c].fetches > 0) =>
            \E i \in 1..Len(subs) :
                subs[i].cursor = c /\ subs[i].err = ErrNil /\ Accepted(subs[i].resp)

\* a status 500 with a FAILED body, then a status 200 with a FAILED body:
\* two failures of the two kinds and no cursor
C8_Witness ==
    /\ Len(subs) = 2
    /\ subs[1].resp.status = 500 /\ subs[1].resp.state = "FAILED"
    /\ subs[1].err = ErrQueryFailed
    /\ subs[2].resp.status = 200 /\ subs[2].resp.state = "FAILED"
    /\ subs[2].err = ErrServer("E1")
    /\ \A c \in Cursors : ~Live(c)

\* C9: a successful submission issues exactly one request, the POST, and
\* returns an unfetched cursor (fetched false, rowindex 0, nothing buffered)
\* whose continuation URI is the answer's nextUri; without a nextUri the
\* cursor's first Next returns io.EOF and issues no request.
C9_SuccessfulSubmission ==
    /\ \A i \in 1..Len(subs) :
        subs[i].err = ErrNil =>
            /\ subs[i].sent /\ subs[i].req.method = "POST"
            /\ subs[i].cursor \in Cursors /\ Live(subs[i].cursor)
            /\ LET c == subs[i].cursor
                   h == hist[c]
               IN  /\ h.seed = subs[i].resp.nextUri
                   /\ (h.fetches = 0 /\ h.results = <<>>) =>
                        /\ h.gets = 0
                        /\ rws[c] = [nextURI |-> subs[i].resp.nextUri, fetched |-> FALSE,
                                     rowindex |-> 0, columns |-> <<>>, types |-> <<>>,
                                     data |-> <<>>]
                   /\ (subs[i].resp.nextUri = "" /\ h.results # <<>>) =>
                        /\ h.results[1].err = EOF
                        /\ ~h.results[1].sent
                        /\ h.gets = 0
    /\ (ret.op = "Query" /\ ret.err = ErrNil) =>
            ret.sent /\ hist[ret.c].gets = 0 /\ hist[ret.c].fetches = 0

\* a submission answered without nextUri, and the first Next on its cursor
C9_Witness ==
    \E i \in 1..Len(subs) :
        /\ subs[i].err = ErrNil /\ subs[i].resp.nextUri = ""
        /\ Len(hist[subs[i].cursor].results) = 1
        /\ ret.op = "Next" /\ ret.err = EOF /\ ~ret.sent

\* the user the driver's tests expect of a data source that names none
DefaultUser == "prestgo"

\* the user of the connection context: the user name of the data source
DataSourceUser(ds) ==
    IF urlParse(ds).User = <<>> THEN DefaultUser ELSE Join(urlParse(ds).User)

\* C10: the submission request is a POST to http://<endpoint>/v1/statement
\* whose body is the query text and whose user, catalog and schema headers
\* are the user, catalog and schema of the connection context.
C10_SubmissionRequest ==
    \A i \in 1..Len(subs) :
        subs[i].sent =>
            /\ subs[i].req.method = "POST"
            /\ subs[i].req.url = "http://" \o conn.addr \o "/v1/statement"
            /\ subs[i].req.body = st.query
            /\ subs[i].req.user = DataSourceUser(dsn)
            /\ subs[i].req.catalog = conn.catalog
            /\ subs[i].req.schema = conn.schema

-----------------------------------------------------------------------------
(* The cursor over one page of typed columns: the raw values of the        *)
(* converter tests under every declared type, pages of one, two and six    *)
(* columns, rows of one, two and six fields.                               *)

\* len(dest) of make([]driver.Value, len(cols)) for the widest page
TypedDestLen == 6

Integer == "integer"

\* the raw values the converter tests pass
TypedValues ==
    {JNumber(10000), JNumber(9), JNumber(-15), JString("Infinity"),
     JString("-Infinity"), JString("NaN"), JString("foo"),
     JString("2015-04-23 10:00:08.123"), JBool(TRUE), JNull}

\* the columns of supportedDatatypesResponse and its row
SixColumns ==
    <<Col("col0", VarChar), Col("col1", BigInt), Col("col2", Double),
      Col("col3", Boolean), Col("col4", Timestamp), Col("col5", Integer)>>
SixRow ==
    <<JString("c0r0"), JNumber(123450), JNumber(125), JBool(TRUE),
      JString("2015-02-09 18:26:02.013"), JNumber(120)>>

TypedColumnSets ==
    {<<Col("col0", t)>> : t \in SupportedTypes \cup {Integer}}
        \cup {<<Col("col0", VarChar), Col("col1", BigInt)>>,
              <<Col("col0", BigInt), Col("col1", VarChar)>>,
              SixColumns}
TypedRows ==
    {<<v>> : v \in TypedValues}
        \cup {<<JString("c0r0"), JNumber(123450)>>, <<JString("foo"), JString("foo")>>,
              <<JNull, JNull>>, SixRow}

\* the single page of a result: one row, no continuation
TypedPages == {Page(cols, <<row>>, "") : cols \in TypedColumnSets, row \in TypedRows}

InitTyped ==
    /\ conn = TestConn
    /\ dsn = <<>>
    /\ st = NoStmt
    /\ rws = [c \in {1} |-> NewRows(FirstURI)]
    /\ hist = [c \in {1} |-> NewHist(FirstURI)]
    /\ dest = [c \in {1} |-> [i \in 1..TypedDestLen |-> Unset]]
    /\ subs = <<>>
    /\ ret = NoCall
    /\ panicked = FALSE

NextTyped ==
    \/ \E c \in Cursors : rowsNext(c, TypedPages)
    \/ \E c \in Cursors : rowsColumns(c, TypedPages)

SpecTyped == InitTyped /\ [][NextTyped]_vars

-----------------------------------------------------------------------------
(* Two cursors of one connection: the connection is open and a statement   *)
(* is prepared; the statement is queried twice and the calls on the two    *)
(* cursors interleave.                                                     *)

\* the data source of the shared connection
PairDataSource == PrestoScheme \o <<"e", "x", ":", "9", "/", "t", "/", "b">>

\* the answers to the page GETs of the two queries
PairPages ==
    {Page(<<Col("col0", VarChar)>>, <<Row0>>, SecondURI),
     Page(<<Col("col0", BigInt)>>, <<Row1>>, "")}

InitPair ==
    /\ conn = clientOpen(PairDataSource)
    /\ dsn = PairDataSource
    /\ st = [query |-> "SELECT 1"]
    /\ rws = [c \in {1, 2} |-> NoRows]
    /\ dest = [c \in {1, 2} |-> [i \in 1..DestLen |-> Unset]]
    /\ hist = [c \in {1, 2} |-> NewHist("")]
    /\ subs = <<>>
    /\ ret = Call("Prepare", 0, ErrNil, <<>>, FALSE, "", NoResponse)
    /\ panicked = FALSE

NextPair ==
    \/ stmtQuery(<<>>, {SubmitOk(FirstURI)})
    \/ \E c \in Cursors : rowsNext(c, PairPages)
    \/ \E c \in Cursors : rowsColumns(c, PairPages)

SpecPair == InitPair /\ [][NextPair]_vars

-----------------------------------------------------------------------------
(* The cursor over pages that may declare no columns, as the page of a     *)
(* query still queued does.                                                *)

\* pages with and without columns, with and without rows
BarePages ==
    {Page(cols, data, uri) :
        cols \in {<<>>, <<Col("col0", VarChar)>>},
        data \in {<<>>, <<Row0>>, <<Row0, Row1>>},
        uri \in NextUris}

InitBare ==
    /\ conn = TestConn
    /\ dsn = <<>>
    /\ st = NoStmt
    /\ rws = [c \in {1} |-> NewRows(FirstURI)]
    /\ hist = [c \in {1} |-> NewHist(FirstURI)]
    /\ dest = [c \in {1} |-> [i \in 1..DestLen |-> Unset]]
    /\ subs = <<>>
    /\ ret = NoCall
    /\ panicked = FALSE

NextBare ==
    \/ \E c \in Cursors : rowsNext(c, BarePages)
    \/ \E c \in Cursors : rowsColumns(c, BarePages)

SpecBare == InitBare /\ [][NextBare]_vars

-----------------------------------------------------------------------------
(* The operations the driver does not support, beside the submission.      *)

\* c.Begin()
connBegin ==
    /\ ~panicked
    /\ conn # NoConn
    /\ ret' = Call("Begin", 0, ErrNotSupported, <<>>, FALSE, "", NoResponse)
    /\ UNCHANGED <<conn, dsn, st, rws, dest, hist, subs, panicked>>

\* s.Exec(args)
stmtExec(args) ==
    /\ ~panicked
    /\ st # NoStmt
    /\ ret' = Call("Exec", 0, ErrNotSupported, <<>>, FALSE, "", NoResponse)
    /\ UNCHANGED <<conn, dsn, st, rws, dest, hist, subs, panicked>>

\* the answers to the POST of a statement
OpsResponses == {Http500Response, SubmitOk("")}

NextOps ==
    \/ \E ds \in DataSources : ClientOpen(ds)
    \/ \E q \in Queries : connPrepare(q)
    \/ connBegin
    \/ \E args \in ArgLists : stmtExec(args)
    \/ \E args \in ArgLists : stmtQuery(args, OpsResponses)

SpecOps == InitSubmit /\ [][NextOps]_vars

-----------------------------------------------------------------------------
(* Properties of the data source parsing, over SpecSubmit: dsn is the name *)
(* ClientOpen was called with.                                             *)

\* the parts of a name presto://[user[:password]@]host[:port]/[catalog[/schema]]
DataSourceForms ==
    {p \in [user : {<<>>, <<"n">>}, password : {<<>>, <<"p", "w">>},
            host : {<<>>, <<"e", "x">>}, port : {<<>>, <<"9">>},
            catalog : {<<>>, <<"t">>}, schema : {<<>>, <<"b">>}] :
        /\ (p.password # <<>> => p.user # <<>>)
        /\ (p.schema # <<>> => p.catalog # <<>>)}

\* the name written from its parts
DataSourceName(p) ==
    PrestoScheme
        \o (IF p.user = <<>> THEN <<>>
            ELSE p.user \o (IF p.password = <<>> THEN <<>> ELSE <<":">> \o p.password)
                        \o <<"@">>)
        \o p.host
        \o (IF p.port = <<>> THEN <<>> ELSE <<":">> \o p.port)
        \o <<"/">>
        \o p.catalog
        \o (IF p.schema = <<>> THEN <<>> ELSE <<"/">> \o p.schema)

\* the parts of the empty name
EmptyForm ==
    [user |-> <<>>, password |-> <<>>, host |-> <<>>, port |-> <<>>,
     catalog |-> <<>>, schema |-> <<>>]

\* the forms the name ds is written from
FormsOf(ds) ==
    {p \in DataSourceForms : DataSourceName(p) = ds}
        \cup (IF ds = <<>> THEN {EmptyForm} ELSE {})

\* C11: parseDataSource does not fail on a name of the form
\* presto://[user[:password]@]host[:port]/[catalog[/schema]] nor on the empty
\* name, and gives addr = host:port (port 8080 when none is given), catalog =
\* the first path segment or "hive", schema = the second one or "default".
C11_ParseDataSourceDefaults ==
    conn # NoConn =>
        \A p \in FormsOf(dsn) :
            LET conf == parseDataSource(dsn)
            IN  /\ ~conf.err
                /\ conf.addr = Join(p.host) \o ":"
                                 \o (IF p.port = <<>> THEN "8080" ELSE Join(p.port))
                /\ conf.catalog = (IF p.catalog = <<>> THEN "hive" ELSE Join(p.catalog))
                /\ conf.schema = (IF p.schema = <<>> THEN "default" ELSE Join(p.schema))
                /\ conn.addr = conf.addr
                /\ conn.catalog = conf.catalog
                /\ conn.schema = conf.schema

\* a connection opened with a name that gives the port, the catalog and the
\* schema and names a user with a password
C11_Witness ==
    /\ conn # NoConn
    /\ \E p \in FormsOf(dsn) :
            p.user # <<>> /\ p.catalog # <<>> /\ p.schema # <<>> /\ conn.schema = "b"

\* C12: the config parseDataSource fills has a user: the user name of the
\* data source, or "prestgo" when the name gives none; a password is accepted
\* and is not a value of the config.
C12_ParseDataSourceUser ==
    conn # NoConn =>
        \A p \in FormsOf(dsn) :
            LET conf == parseDataSource(dsn)
            IN  /\ ~conf.err
                /\ "user" \in DOMAIN conf
                /\ conf.user = (IF p.user = <<>> THEN DefaultUser ELSE Join(p.user))
                /\ \A k \in DOMAIN conf \ {"err"} :
                        p.password # <<>> => conf[k] # Join(p.password)

-----------------------------------------------------------------------------
(* Properties of the converters, over SpecTyped: the first Next of a       *)
(* cursor applies the converter bound to a column to the raw value of the  *)
(* page's row.                                                             *)

\* the first Next call has returned, over a page of one column of declared
\* type t holding a row of one field
FirstNextOver(c, t) ==
    /\ ret.op = "Next" /\ ret.c = c
    /\ Len(hist[c].results) = 1
    /\ Len(hist[c].pages) = 1
    /\ Len(hist[c].schema) = 1 /\ hist[c].schema[1].type = t
    /\ Len(hist[c].pages[1].data[1]) = 1

\* the raw value that call converted
RawValue(c) == hist[c].pages[1].data[1][1]

PosInf == Val("float64", "+Inf", 0)
NegInf == Val("float64", "-Inf", 0)
NaN == Val("float64", "NaN", 0)

\* the call delivered the value v in the column
Delivered(c, v) == ret.err = ErrNil /\ dest[c][1] = v
\* the call failed with a conversion error and wrote no value
ConversionFailed(c) == ret.err.kind = "convert" /\ dest[c][1] = Unset

\* C13: the DOUBLE converter gives a number for a number, the infinities and
\* not-a-number for "Infinity", "-Infinity" and "NaN", null without error for
\* null, and a conversion error for any other string.
C13_DoubleConverter ==
    \A c \in Cursors :
        FirstNextOver(c, Double) =>
            LET v == RawValue(c)
            IN  CASE v.kind = "float64" -> Delivered(c, v)
                  [] v = JString("Infinity") -> Delivered(c, PosInf)
                  [] v = JString("-Infinity") -> Delivered(c, NegInf)
                  [] v = JString("NaN") -> Delivered(c, NaN)
                  [] v = JNull -> Delivered(c, JNull)
                  [] v.kind = "string" -> ConversionFailed(c)
                  [] OTHER -> TRUE

\* C14: the BIGINT converter gives the 64-bit integer of a number with its
\* fraction cut off, null without error for null, and a conversion error for
\* every other raw value.
C14_BigIntConverter ==
    \A c \in Cursors :
        FirstNextOver(c, BigInt) =>
            LET v == RawValue(c)
            IN  CASE v.kind = "float64" ->
                        Delivered(c, Val("int64", "",
                                         IF v.n < 0 THEN 0 - ((0 - v.n) \div 10)
                                         ELSE v.n \div 10))
                  [] v = JNull -> Delivered(c, JNull)
                  [] OTHER -> ConversionFailed(c)

\* C15: the converter bound for any declared type the cursor binds gives
\* null without error for a raw null: a Next over a row holding nulls
\* succeeds and writes null in those columns.
C15_NullConvertsToNull ==
    \A c \in Cursors :
        (/\ ret.op = "Next" /\ ret.c = c
         /\ Len(hist[c].results) = 1 /\ Len(hist[c].pages) = 1
         /\ Len(hist[c].schema) = Len(hist[c].pages[1].data[1])
         /\ \A i \in 1..Len(hist[c].schema) : hist[c].schema[i].type \in SupportedTypes
         /\ \A i \in 1..Len(hist[c].schema) : hist[c].pages[1].data[1][i] = JNull)
            => /\ ret.err = ErrNil
               /\ \A i \in 1..Len(hist[c].schema) : dest[c][i] = JNull

-----------------------------------------------------------------------------
(* Properties of the schema step, over SpecTyped.                          *)

\* the declared types of the converter table, and integer
ConverterTableTypes ==
    {"varchar", "bigint", "double", "boolean", "timestamp",
     "timestamp with time zone", "varbinary", "map(varchar,varchar)",
     "array(varchar)", "integer"}

\* the row Next delivers for SixRow
SixRowDelivered ==
    <<JString("c0r0"), Val("int64", "", 12345), JNumber(125), JBool(TRUE),
      Val("time.Time", "2015-02-09 18:26:02.013 Local", 0), Val("int64", "", 12)>>

\* C16: the schema step of the first accepted page binds a converter for
\* every column whose declared type is in the converter table or is integer,
\* and reports an unsupported type only for a type outside it; the page with
\* columns varchar, bigint, double, boolean, timestamp, integer is fetched
\* without error and Next delivers its row.
C16_SchemaBindsTableTypes ==
    \A c \in Cursors :
        Len(hist[c].pages) >= 1 =>
            LET cols == hist[c].schema
                known == \A i \in 1..Len(cols) : cols[i].type \in ConverterTableTypes
            IN  /\ known =>
                    /\ rws[c].fetched
                    /\ Len(rws[c].types) = Len(cols)
                    /\ \A i \in 1..Len(cols) : rws[c].types[i] # NilConverter
                /\ (ret.c = c /\ ret.err.kind = "unsupported column type") => ~known
                /\ (/\ ret.op = "Next" /\ ret.c = c /\ Len(hist[c].results) = 1
                    /\ cols = SixColumns /\ hist[c].pages[1].data = <<SixRow>>)
                        => ret.err = ErrNil /\ dest[c] = SixRowDelivered

-----------------------------------------------------------------------------
(* Properties of the schema over the life of a cursor, over Spec.          *)

\* a fetch of cursor c has failed at the schema step: the first accepted
\* page declared a column type without converter
BindFailed(c) ==
    rws[c] # NoRows /\ rws[c].fetched /\ BindError(hist[c].schema) # ErrNil

\* C17: an unsupported type is terminal: after a fetch failed because a
\* declared column type has no converter, every later Next reports a
\* failure, delivers no row, issues no request and applies no unbound
\* converter.
C17_UnsupportedTypeIsTerminal ==
    [][\A c \in Cursors :
        (BindFailed(c) /\ NextCalled(c)) =>
            /\ Failure(ret'.err)
            /\ ret'.err # ErrPanic /\ ~panicked'
            /\ ~ret'.sent
            /\ hist'[c].gets = hist[c].gets]_vars

\* the converters of the declared types of cols
Converters(cols) == [i \in 1..Len(cols) |-> ConverterFor(cols[i].type)]

\* C18: the schema is established once: the first accepted page assigns the
\* columns and the converters, no later fetch, Next or Columns call changes
\* them whatever columns later pages carry, and Columns() returns that same
\* list from then on.
C18_SchemaEstablishedOnce ==
    [][\A c \in Cursors :
        Live(c) =>
            /\ rws[c].fetched =>
                /\ rws'[c].fetched
                /\ rws'[c].columns = rws[c].columns
                /\ rws'[c].types = rws[c].types
            /\ (~rws[c].fetched /\ rws'[c].fetched) =>
                /\ ret'.sent /\ Accepted(ret'.resp)
                /\ hist[c].pages = <<>> /\ hist'[c].schema = ret'.resp.columns
            /\ (rws'[c].fetched /\ BindError(hist'[c].schema) = ErrNil) =>
                /\ rws'[c].columns = Names(hist'[c].schema)
                /\ rws'[c].types = Converters(hist'[c].schema)
            /\ (rws'[c].fetched /\ ret'.op = "Columns" /\ ret'.c = c) =>
                /\ ret'.val = rws'[c].columns
                /\ rws[c].fetched => ret'.val = rws[c].columns]_vars

\* a second page with other columns than the first has been accepted and
\* the schema is still the first one
C18_Witness ==
    \E c \in Cursors :
        /\ Live(c) /\ Len(hist[c].pages) = 2
        /\ ret.op = "Next" /\ ret.c = c /\ ret.sent /\ Accepted(ret.resp)
        /\ ret.resp.columns # hist[c].schema
        /\ rws[c].types = Converters(hist[c].schema)
        /\ ret.err = ErrNil

-----------------------------------------------------------------------------
(* Properties of the row widths and of a failing conversion, over          *)
(* SpecTyped.                                                              *)

\* C19: in every cursor state the converters, the columns and every
\* buffered row have the same length, whatever pages the server sends, so
\* Next reads no field beyond the end of a buffered row.
C19_WidthsAgree ==
    \A c \in Cursors :
        Live(c) =>
            /\ Len(rws[c].types) = Len(rws[c].columns)
            /\ \A k \in 1..Len(rws[c].data) : Len(rws[c].data[k]) = Len(rws[c].columns)
            /\ \A k \in 1..Len(rws[c].data) :
                    \A i \in 1..Len(rws[c].types) : i \in DOMAIN rws[c].data[k]

\* the error is one a converter returns
ConversionError(e) == e.kind = "convert"

\* the first column of the row at the offset of r whose conversion fails
RECURSIVE FailingColumn(_, _)
FailingColumn(r, i) ==
    IF i > Len(r.types) THEN 0
    ELSE IF ConvertValue(r.types[i], r.data[r.rowindex + 1][i]).err # ErrNil THEN i
    ELSE FailingColumn(r, i + 1)

\* C20: when the converter of column j fails, Next returns that error,
\* writes no column from j on, and leaves the row offset, the buffered page
\* and the continuation URI as the page fetch (if any) set them; the next
\* Next tries the same row again and fails the same way.
C20_ConversionFailureFrame ==
    [][\A c \in Cursors :
        (Live(c) /\ NextCalled(c) /\ ConversionError(ret'.err)) =>
            LET r == rws[c]
                j == FailingColumn(rws'[c], 1)
            IN  /\ rws'[c].rowindex = (IF ret'.sent THEN 0 ELSE r.rowindex)
                /\ rws'[c].data = (IF ret'.sent THEN ret'.resp.data ELSE r.data)
                /\ rws'[c].nextURI = (IF ret'.sent THEN ret'.resp.nextUri ELSE r.nextURI)
                /\ rws'[c].rowindex < Len(rws'[c].data)
                /\ j >= 1
                /\ ret'.err = ConvertValue(rws'[c].types[j],
                                           rws'[c].data[rws'[c].rowindex + 1][j]).err
                /\ \A k \in j..Len(dest[c]) : dest'[c][k] = dest[c][k]
                /\ ret'.val = <<>>
                /\ (ret.op = "Next" /\ ret.c = c /\ ConversionError(ret.err)) =>
                        /\ rws'[c] = r /\ ret'.err = ret.err /\ ~ret'.sent]_vars

\* Next has failed twice on the first column of the same row of two fields
C20_Witness ==
    \E c \in Cursors :
        /\ Live(c) /\ Len(hist[c].results) = 2
        /\ ConversionError(hist[c].results[1].err)
        /\ ret.op = "Next" /\ ret.c = c /\ ConversionError(ret.err)
        /\ Len(rws[c].types) = 2 /\ FailingColumn(rws[c], 1) = 1
        /\ rws[c].rowindex = 0 /\ dest[c][2] = Unset

-----------------------------------------------------------------------------
(* Properties of two cursors of one connection, over SpecPair.             *)

\* C21: the calls on two cursors of one connection do not interfere: a call
\* on one cursor changes nothing of the other, the state of a cursor is the
\* one its own calls and answers give whatever the other cursor did, and no
\* statement or cursor operation changes the addr, catalog and schema of
\* the connection.
C21_CursorsIndependent ==
    [][/\ conn' = conn /\ conn = clientOpen(dsn)
       /\ st' = st
       /\ \A d \in Cursors :
            d # ret'.c =>
                /\ rws'[d] = rws[d]
                /\ dest'[d] = dest[d]
                /\ hist'[d] = hist[d]
       /\ \A c, d \in Cursors :
            hist'[c] = hist'[d] => (rws'[c] = rws'[d] /\ dest'[c] = dest'[d])]_vars

\* both cursors have delivered a row, one of them is a page ahead of the other
C21_Witness ==
    /\ Live(1) /\ Live(2)
    /\ Len(hist[1].pages) = 2 /\ Len(hist[2].pages) = 1
    /\ \E i \in 1..Len(hist[1].results) : hist[1].results[i].err = ErrNil
    /\ \E i \in 1..Len(hist[2].results) : hist[2].results[i].err = ErrNil
    /\ ret.op = "Next" /\ ret.c = 2

-----------------------------------------------------------------------------
(* Properties of the requests and of the frame of a cursor call, over      *)
(* Spec.                                                                   *)

\* the step is a Columns call on cursor c
ColumnsCalled(c) == hist'[c].ncols = hist[c].ncols + 1

\* C22: no retry and no prefetch: a call of Next or Columns issues at most
\* one request; it issues one only if the schema is not established yet or,
\* for Next, the buffered page is used up and a continuation URI remains; a
\* Next that finds a buffered row not yet read issues none.
C22_AtMostOneRequest ==
    [][\A c \in Cursors :
        (Live(c) /\ (NextCalled(c) \/ ColumnsCalled(c))) =>
            LET r == rws[c]
                issued == hist'[c].gets - hist[c].gets
            IN  /\ issued \in {0, 1}
                /\ issued = 1 <=> ret'.sent
                /\ hist'[c].fetches - hist[c].fetches \in {0, 1}
                /\ issued <= hist'[c].fetches - hist[c].fetches
                /\ issued = 1 =>
                    \/ ~r.fetched /\ r.nextURI # ""
                    \/ /\ NextCalled(c)
                       /\ r.rowindex >= Len(r.data)
                       /\ r.nextURI # ""
                /\ (NextCalled(c) /\ r.fetched /\ r.rowindex < Len(r.data)) =>
                        issued = 0 /\ hist'[c].fetches = hist[c].fetches
                /\ (ColumnsCalled(c) /\ r.fetched) =>
                        issued = 0 /\ hist'[c].fetches = hist[c].fetches]_vars

\* Next has delivered the second row of a page of two rows without a request
C22_Witness ==
    \E c \in Cursors :
        /\ Live(c) /\ ret.op = "Next" /\ ret.c = c /\ ret.err = ErrNil /\ ~ret.sent
        /\ rws[c].rowindex = 2 /\ Len(rws[c].data) = 2
        /\ hist[c].gets >= 1

\* the step is a call on cursor c that ran fetch and got no page accepted
FetchFailedEarly(c) ==
    /\ hist'[c].fetches = hist[c].fetches + 1
    /\ Len(hist'[c].pages) = Len(hist[c].pages)

\* the last call was one on cursor c whose GET was not answered by a page
LastGetRejected(c) == ret.c = c /\ ret.sent /\ ~Accepted(ret.resp)

\* C23: a fetch that fails before a page is accepted (request error,
\* non-200 status, undecodable body, stats.state FAILED) leaves nextURI,
\* fetched, rowindex, data, columns and types as they were, and the next
\* Next or Columns call that needs a page sends a GET to the same URI.
C23_FailedFetchFrame ==
    [][\A c \in Cursors :
        Live(c) =>
            /\ FetchFailedEarly(c) =>
                /\ rws'[c].nextURI = rws[c].nextURI
                /\ rws'[c].fetched = rws[c].fetched
                /\ rws'[c].rowindex = rws[c].rowindex
                /\ rws'[c].data = rws[c].data
                /\ rws'[c].columns = rws[c].columns
                /\ rws'[c].types = rws[c].types
                /\ Failure(ret'.err) \/ ret'.op = "Columns"
            /\ (/\ LastGetRejected(c)
                /\ NextCalled(c) \/ (ColumnsCalled(c) /\ ~rws[c].fetched)) =>
                    /\ ret'.sent
                    /\ ret'.url = ret.url
                    /\ hist'[c].gets = hist[c].gets + 1]_vars

\* after a row of the first page was read, the GET for the second page was
\* rejected twice in a row and the first page is still the buffered one
C23_Witness ==
    \E c \in Cursors :
        /\ Live(c) /\ LastGetRejected(c) /\ ret.url = SecondURI
        /\ hist[c].gets = 3 /\ Len(hist[c].pages) = 1
        /\ rws[c].fetched /\ rws[c].rowindex = 1 /\ rws[c].data = hist[c].pages[1].data
        /\ rws[c].nextURI = SecondURI

-----------------------------------------------------------------------------
(* Properties of a cursor whose first page declares no columns, over       *)
(* SpecBare.                                                               *)

\* the first page cursor c accepted declared no columns
BareSchema(c) == Live(c) /\ Len(hist[c].pages) >= 1 /\ hist[c].schema = <<>>

\* C24: when the first decoded page carries no columns the schema is bound
\* empty (fetched, no columns, no converters) and stays empty whatever
\* later pages carry: Columns() returns the empty list and every later
\* successful Next moves the row offset on by one and writes no value.
C24_EmptySchemaStays ==
    [][\A c \in Cursors :
        /\ BareSchema(c)' =>
            /\ rws'[c].fetched
            /\ rws'[c].columns = <<>>
            /\ rws'[c].types = <<>>
            /\ (ret'.op = "Columns" /\ ret'.c = c) => ret'.val = <<>>
        /\ (BareSchema(c) /\ NextCalled(c) /\ ret'.err = ErrNil) =>
            /\ rws'[c].rowindex = (IF ret'.sent THEN 0 ELSE rws[c].rowindex) + 1
            /\ dest'[c] = dest[c]
            /\ \A i \in 1..Len(dest'[c]) : dest'[c][i] = Unset]_vars

\* after a first page without columns, a Next over a second page that
\* declares a column and holds a row has succeeded and written nothing
C24_Witness ==
    \E c \in Cursors :
        /\ BareSchema(c) /\ Len(hist[c].pages) = 2
        /\ ret.op = "Next" /\ ret.c = c /\ ret.err = ErrNil /\ ret.sent
        /\ ret.resp.columns # <<>> /\ ret.resp.data # <<>>
        /\ rws[c].rowindex = 1 /\ rws[c].columns = <<>>
        /\ dest[c][1] = Unset

-----------------------------------------------------------------------------
(* Properties of the row offset, over Spec.                                *)

\* the step is a call on cursor c whose fetch accepted a page
PageAccepted(c) == Len(hist'[c].pages) = Len(hist[c].pages) + 1

\* C25: in every cursor state 0 <= rowindex <= number of buffered rows;
\* every accepted fetch sets rowindex to 0 and replaces the buffered rows by
\* the rows of the page; Next reads the row at rowindex only when rowindex
\* is less than the number of buffered rows.
C25_RowIndexInBounds ==
    [][\A c \in Cursors :
        Live(c) =>
            /\ 0 <= rws'[c].rowindex /\ rws'[c].rowindex <= Len(rws'[c].data)
            /\ PageAccepted(c) =>
                /\ rws'[c].data = ret'.resp.data
                /\ rws'[c].rowindex = (IF NextCalled(c) /\ ret'.err = ErrNil THEN 1 ELSE 0)
            /\ (NextCalled(c) /\ ret'.val # <<>>) =>
                /\ rws'[c].rowindex >= 1
                /\ \A i \in 1..Len(rws'[c].types) :
                        ret'.val[i] = ConvertValue(rws'[c].types[i],
                                                   rws'[c].data[rws'[c].rowindex][i]).val
            /\ (NextCalled(c) /\ (ConversionError(ret'.err) \/ panicked')) =>
                rws'[c].rowindex < Len(rws'[c].data)
            /\ (NextCalled(c) /\ ~PageAccepted(c) /\ rws[c].rowindex >= Len(rws[c].data)) =>
                ret'.err # ErrNil /\ ~panicked']_vars

\* the last row of the second page, a page of two rows, was read and the
\* offset is at the number of buffered rows
C25_Witness ==
    \E c \in Cursors :
        /\ Live(c) /\ rws[c].rowindex = 2 /\ Len(rws[c].data) = 2
        /\ Len(hist[c].pages) = 2
        /\ ret.op = "Next" /\ ret.c = c /\ ret.err = ErrNil

-----------------------------------------------------------------------------
(* Properties of the unsupported operations, over SpecOps.                 *)

\* the step is a Query call
QueryCalled == Len(subs') = Len(subs) + 1

\* C26: the unsupported operations fail without side effects: Query with
\* one or more arguments returns ErrNotSupported and sends no request, Exec
\* and Begin always return ErrNotSupported, and none of them changes the
\* connection or the statement.
C26_UnsupportedOperations ==
    [][/\ (QueryCalled /\ subs'[Len(subs')].args # <<>>) =>
            /\ ret'.op = "Query" /\ ret'.err = ErrNotSupported /\ ~ret'.sent
            /\ subs'[Len(subs')].err = ErrNotSupported
            /\ ~subs'[Len(subs')].sent /\ subs'[Len(subs')].req = NoRequest
            /\ subs'[Len(subs')].cursor = 0
            /\ conn' = conn /\ st' = st /\ rws' = rws /\ dest' = dest
       /\ ret'.op \in {"Exec", "Begin"} =>
            /\ ret'.err = ErrNotSupported /\ ~ret'.sent /\ ret'.val = <<>>
            /\ conn' = conn /\ st' = st /\ rws' = rws /\ dest' = dest
            /\ subs' = subs /\ hist' = hist
       /\ (QueryCalled /\ subs'[Len(subs')].args = <<>>) =>
            /\ ret'.err # ErrNotSupported /\ ret'.sent
            /\ conn' = conn /\ st' = st]_vars

\* a Query with an argument was refused and an Exec followed it
C26_Witness ==
    /\ ret.op = "Exec" /\ ret.err = ErrNotSupported
    /\ \E i \in 1..Len(subs) : subs[i].args # <<>> /\ subs[i].err = ErrNotSupported
    /\ conn = clientOpen(dsn) /\ st # NoStmt

====
